---- MODULE Spec2Model ----
(***************************************************************************)
(* A model of exchange.py: Order (construction, execute, is_filled) and    *)
(* OrderBook (add_order, _match_order, _record_trade).                     *)
(*                                                                         *)
(* Encoding of values                                                      *)
(*   - an Order object is an index into the sequence `orders` (object      *)
(*     identity); its fields are the fields of the record at that index;   *)
(*   - a price argument is an exact decimal given in thousandths (1125 is  *)
(*     1.125); a stored price (a Decimal quantized to 0.01) is an integer  *)
(*     number of cents (113 is 1.13);                                      *)
(*   - a quantity argument is a number given in tenths (25 is 2.5); a      *)
(*     stored quantity is the int() of it;                                 *)
(*   - the optional order_id argument is <<>> for None and <<n>> for n;    *)
(*   - a heap entry is the tuple (key, order_id, order) of the code, the   *)
(*     heap the list heapq keeps, position p of the code at index p + 1;   *)
(*     the model's entry has a fourth component the code's has not, which  *)
(*     no operation reads: the number of entries the book had rested when  *)
(*     this one was pushed (the order of submission);                      *)
(*   - a dict with default (dict.get(k, d)) is a function on the keys it   *)
(*     holds.                                                              *)
(***************************************************************************)
EXTENDS Integers, Sequences, FiniteSets, TLC

VARIABLES orders, symbol_seq, books, last

vars == <<orders, symbol_seq, books, last>>

\* ------------------------------------------------------------------ bounds
\* Orders constructed in one run of the general specification.
MaxOrders == 3
\* Entries one order object holds in one book past which no further
\* add_order of that object is explored.
MaxCopies == 2
\* Orders constructed in one run of the deep-book specification.
MaxOrdersDeep == 5

\* ------------------------------------------------------------ conversions
\* str.upper() on the strings the model passes.
Upper(s) ==
    CASE s = "x" -> "X"
      [] s = "y" -> "Y"
      [] s = "buy" -> "BUY"
      [] s = "sell" -> "SELL"
      [] s = "Sell" -> "SELL"
      [] s = "hold" -> "HOLD"
      [] OTHER -> s

Abs(n) == IF n < 0 THEN -n ELSE n

\* Decimal(price).quantize(Decimal("0.01"), rounding=ROUND_HALF_UP):
\* thousandths to cents, ties away from zero.
Quantize(m) == IF m >= 0 THEN (m + 5) \div 10 ELSE -((Abs(m) + 5) \div 10)

\* int(quantity): tenths to units, truncated toward zero.
IntOf(t) == IF t >= 0 THEN t \div 10 ELSE -(Abs(t) \div 10)

Min(a, b) == IF a <= b THEN a ELSE b

\* dict.get(key, default)
Get(d, k, default) == IF k \in DOMAIN d THEN d[k] ELSE default

\* d[key] = value
Put(d, k, v) == [x \in DOMAIN d \cup {k} |-> IF x = k THEN v ELSE d[x]]

\* --------------------------------------------------------------- Order
\* Order.__init__: the id the new order gets.
AssignedId(symbol_upper, order_id) ==
    IF order_id # <<>> THEN order_id[1] ELSE Get(symbol_seq, symbol_upper, 1)

\* Order.__init__: the counter after the construction.
NextSeq(symbol_upper, order_id) ==
    IF order_id # <<>>
    THEN symbol_seq
    ELSE Put(symbol_seq, symbol_upper, Get(symbol_seq, symbol_upper, 1) + 1)

\* Order.__init__: the fields of the new object.
OrderInit(symbol, side, price, quantity, order_id) ==
    [order_id          |-> AssignedId(Upper(symbol), order_id),
     symbol            |-> Upper(symbol),
     side              |-> Upper(side),
     price             |-> Quantize(price),
     quantity          |-> IntOf(quantity),
     original_quantity |-> IntOf(quantity)]

\* Order.is_filled
is_filled(o) == o.quantity = 0

\* Order.execute on the order record o: the error flag, the order after the
\* call and the returned quantity.
ExecuteNoCap(o, exec_quantity) ==
    IF exec_quantity <= 0
    THEN [err |-> TRUE, order |-> o, ret |-> 0]
    ELSE [err   |-> FALSE,
          order |-> [o EXCEPT !.quantity = o.quantity - exec_quantity],
          ret   |-> exec_quantity]

ExecuteZeroAllowed(o, exec_quantity) ==
    IF exec_quantity < 0
    THEN [err |-> TRUE, order |-> o, ret |-> 0]
    ELSE LET actual_exec_qty == Min(exec_quantity, o.quantity)
         IN [err   |-> FALSE,
             order |-> [o EXCEPT !.quantity = o.quantity - actual_exec_qty],
             ret   |-> actual_exec_qty]

execute(o, exec_quantity) ==
    IF exec_quantity <= 0
    THEN [err |-> TRUE, order |-> o, ret |-> 0]
    ELSE LET actual_exec_qty == Min(exec_quantity, o.quantity)
         IN [err   |-> FALSE,
             order |-> [o EXCEPT !.quantity = o.quantity - actual_exec_qty],
             ret   |-> actual_exec_qty]

\* ------------------------------------------------------------------ heapq
\* tuple.__lt__ on two heap entries (key, order_id, order): the first
\* differing component decides; two different Order objects do not compare
\* (TypeError); equal tuples are not less.
TupleLT(a, b) ==
    IF a[1] # b[1] THEN (IF a[1] < b[1] THEN "lt" ELSE "ge")
    ELSE IF a[2] # b[2] THEN (IF a[2] < b[2] THEN "lt" ELSE "ge")
    ELSE IF a[3] # b[3] THEN "err"
    ELSE "ge"

Swap(h, i, j) == [h EXCEPT ![i] = h[j], ![j] = h[i]]

\* _heapq siftdown(heap, startpos, pos): swap the item at pos with its
\* parents while it is less; a failed comparison leaves the list as it is.
RECURSIVE siftdown(_, _, _)
siftdown(h, startpos, pos) ==
    IF pos > startpos
    THEN LET parentpos == (pos - 1) \div 2
             c == TupleLT(h[pos + 1], h[parentpos + 1])
         IN IF c = "err" THEN [heap |-> h, err |-> TRUE]
            ELSE IF c = "ge" THEN [heap |-> h, err |-> FALSE]
            ELSE siftdown(Swap(h, pos + 1, parentpos + 1), startpos, parentpos)
    ELSE [heap |-> h, err |-> FALSE]

\* _heapq siftup(heap, pos): swap the smaller child up until a leaf, then
\* siftdown from there.
RECURSIVE siftupFrom(_, _, _)
siftupFrom(h, startpos, pos) ==
    LET endpos == Len(h)
        limit == endpos \div 2
        left == 2 * pos + 1
    IN IF pos < limit
       THEN LET c == IF left + 1 < endpos
                     THEN TupleLT(h[left + 1], h[left + 2])
                     ELSE "lt"
                childpos == IF c = "lt" THEN left ELSE left + 1
            IN IF c = "err" THEN [heap |-> h, err |-> TRUE]
               ELSE siftupFrom(Swap(h, pos + 1, childpos + 1), startpos, childpos)
       ELSE siftdown(h, startpos, pos)

siftup(h, pos) == siftupFrom(h, pos, pos)

\* heapq.heappush(heap, item): append, then siftdown from the last position.
heappush(h, item) == siftdown(Append(h, item), 0, Len(h))

\* heapq.heappop(heap): drop the last entry, put it at the root, siftup.
heappopKeep(h) == [heap |-> h, err |-> FALSE]

heappop(h) ==
    LET n == Len(h)
        lastelt == h[n]
        rest == SubSeq(h, 1, n - 1)
    IN IF n = 1 THEN [heap |-> <<>>, err |-> FALSE]
       ELSE siftup([rest EXCEPT ![1] = lastelt], 0)

\* -------------------------------------------------------------- OrderBook
\* OrderBook.__init__ with a symbol given. rested is not a field of the
\* object: it counts the entries add_order has pushed.
OrderBookInit(symbol) ==
    [symbol |-> symbol, bids |-> <<>>, offers |-> <<>>, trades |-> <<>>,
     positions |-> <<>>, rested |-> 0]

\* OrderBook._record_trade: the position tally after a trade.
PositionsAfterBothSides(positions, symbol, quantity, active_side) ==
    Put(positions, symbol, Get(positions, symbol, 0) + quantity)

PositionsAfter(positions, symbol, quantity, active_side) ==
    IF active_side = "BUY"
    THEN Put(positions, symbol, Get(positions, symbol, 0) + quantity)
    ELSE IF active_side = "SELL"
    THEN Put(positions, symbol, Get(positions, symbol, 0) - quantity)
    ELSE positions

\* OrderBook._record_trade: the trade dict. active, incoming and resting are
\* not fields of the dict: they record the active_side argument and the two
\* Order objects of the call that made the trade.
TradeRecordSwapped(symbol, buy_id, sell_id, price, quantity, active_side, o, best) ==
    [symbol |-> symbol, buy_order_id |-> sell_id, sell_order_id |-> buy_id,
     price |-> price, quantity |-> quantity,
     active |-> active_side, incoming |-> o, resting |-> best]

TradeRecord(symbol, buy_id, sell_id, price, quantity, active_side, o, best) ==
    [symbol |-> symbol, buy_order_id |-> buy_id, sell_order_id |-> sell_id,
     price |-> price, quantity |-> quantity,
     active |-> active_side, incoming |-> o, resting |-> best]

\* The price_cmp lambdas of add_order: buy >= offer, sell <= bid.
PriceCmpAlways(side, p, best_price) == TRUE

price_cmp(side, p, best_price) ==
    IF side = "BUY" THEN p >= best_price ELSE p <= best_price

\* The price_sign arguments of add_order.
price_sign(side) == IF side = "BUY" THEN 1 ELSE -1

\* The price the trade of _match_order is recorded at.
TradePriceIncoming(ord, o, best_price) == ord[o].price

TradePrice(ord, o, best_price) == best_price

\* The quantity _match_order asks the incoming order to execute.
TradeQty(ord, o, best) == Min(ord[o].quantity, ord[best].quantity)

\* The entry of the heap _match_order matches against.
HeapTop(heap) == heap[1]

\* OrderBook._match_order, the while loop. s holds what the loop changes:
\* the order objects, the opposite heap, the trades and the positions, with
\* the exception raised (if any) and a log of the iterations that crossed:
\* the resting order and the heap the iteration found, the two quantities
\* before it (inQty, restQty), the quantity asked of the incoming order's
\* execute (asked), the quantity traded (trade_qty, 0 when execute raised)
\* and the two quantities after it (inAfter, restAfter).
RECURSIVE match_loop(_, _, _, _)
match_loop(s, o, symbol, side) ==
    IF ~(Len(s.heap) > 0 /\ s.ord[o].quantity > 0) THEN s
    ELSE
    LET top == HeapTop(s.heap)
        best == top[3]
        best_price == price_sign(side) * top[1]
    IN  IF ~price_cmp(side, s.ord[o].price, best_price) THEN s
        ELSE
        LET trade_qty == TradeQty(s.ord, o, best)
            e1 == execute(s.ord[o], trade_qty)
            ord1 == [s.ord EXCEPT ![o] = e1.order]
            e2 == execute(ord1[best], e1.ret)
            ord2 == [ord1 EXCEPT ![best] = e2.order]
            step == [resting |-> best, heap |-> s.heap,
                     inQty |-> s.ord[o].quantity,
                     restQty |-> s.ord[best].quantity,
                     asked |-> trade_qty, trade_qty |-> trade_qty,
                     inAfter |-> ord2[o].quantity,
                     restAfter |-> ord2[best].quantity,
                     price |-> best_price]
        IN  IF e1.err
            THEN [s EXCEPT !.err = "ValueError",
                           !.steps = Append(@, [step EXCEPT !.trade_qty = 0])]
            ELSE IF e2.err
            THEN [s EXCEPT !.err = "ValueError", !.ord = ord1,
                           !.steps = Append(@, [step EXCEPT !.trade_qty = 0])]
            ELSE
            LET trade == TradeRecord(
                    symbol,
                    IF s.ord[o].side = "BUY" THEN s.ord[o].order_id
                                             ELSE s.ord[best].order_id,
                    IF s.ord[o].side = "BUY" THEN s.ord[best].order_id
                                             ELSE s.ord[o].order_id,
                    TradePrice(s.ord, o, best_price), e1.ret,
                    s.ord[o].side, o, best)
                s1 == [s EXCEPT
                         !.ord = ord2,
                         !.trades = Append(@, trade),
                         !.positions = PositionsAfter(@, symbol, e1.ret,
                                                      s.ord[o].side),
                         !.steps = Append(@, [step EXCEPT !.trade_qty = e1.ret])]
            IN  IF is_filled(ord2[best])
                THEN LET p == heappop(s.heap)
                     IN IF p.err
                        THEN [s1 EXCEPT !.heap = p.heap, !.err = "TypeError"]
                        ELSE match_loop([s1 EXCEPT !.heap = p.heap],
                                        o, symbol, side)
                ELSE s1

\* OrderBook._match_order of order o against `heap` of book bk.
match_order(bk, o, heap, side) ==
    match_loop([ord |-> orders, heap |-> heap, trades |-> bk.trades,
                positions |-> bk.positions, steps |-> <<>>, err |-> "none"],
               o, bk.symbol, side)

\* OrderBook.add_order past the symbol check: the dispatch on order.side,
\* the matching loop and the push of the remainder.
ShouldRest(ord, o) == ~is_filled(ord[o])

add_order_side(bk, o) ==
    IF orders[o].side = "BUY"
    THEN LET m == match_order(bk, o, bk.offers, "BUY")
             bk1 == [bk EXCEPT !.offers = m.heap, !.trades = m.trades,
                               !.positions = m.positions]
             p == heappush(bk.bids,
                           <<-orders[o].price, orders[o].order_id, o, bk.rested>>)
         IN IF m.err # "none"
            THEN [ord |-> m.ord, book |-> bk1, steps |-> m.steps, err |-> m.err]
            ELSE IF ShouldRest(m.ord, o)
            THEN [ord |-> m.ord,
                  book |-> [bk1 EXCEPT !.bids = p.heap, !.rested = @ + 1],
                  steps |-> m.steps,
                  err |-> IF p.err THEN "TypeError" ELSE "none"]
            ELSE [ord |-> m.ord, book |-> bk1, steps |-> m.steps, err |-> "none"]
    ELSE IF orders[o].side = "SELL"
    THEN LET m == match_order(bk, o, bk.bids, "SELL")
             bk1 == [bk EXCEPT !.bids = m.heap, !.trades = m.trades,
                               !.positions = m.positions]
             p == heappush(bk.offers,
                           <<orders[o].price, orders[o].order_id, o, bk.rested>>)
         IN IF m.err # "none"
            THEN [ord |-> m.ord, book |-> bk1, steps |-> m.steps, err |-> m.err]
            ELSE IF ShouldRest(m.ord, o)
            THEN [ord |-> m.ord,
                  book |-> [bk1 EXCEPT !.offers = p.heap, !.rested = @ + 1],
                  steps |-> m.steps,
                  err |-> IF p.err THEN "TypeError" ELSE "none"]
            ELSE [ord |-> m.ord, book |-> bk1, steps |-> m.steps, err |-> "none"]
    ELSE [ord |-> orders, book |-> bk, steps |-> <<>>, err |-> "UnknownSide"]

\* OrderBook.add_order of the order object o on the book bk: the order
\* objects and the book after the call, the exception it ended in ("none"
\* when it returned) and the log of its matching loop.
\*   "SymbolMismatch" is the ValueError of line 120, "UnknownSide" the
\*   Exception of line 148, "ValueError" the one Order.execute raises and
\*   "TypeError" the one a heap comparison of two Order objects raises.
add_order_check_last(bk, o) ==
    IF orders[o].symbol # bk.symbol
    THEN [add_order_side(bk, o) EXCEPT !.err = "SymbolMismatch"]
    ELSE add_order_side(bk, o)

add_order(bk, o) ==
    IF orders[o].symbol # bk.symbol
    THEN [ord |-> orders, book |-> bk, steps |-> <<>>, err |-> "SymbolMismatch"]
    ELSE add_order_side(bk, o)

\* ---------------------------------------------------------------- inputs
\* Arguments of Order(...): <<symbol, side, price, quantity, order_id>>.
\* The prices 0.124 and 0.125 quantize to 0.12 and 0.13; the quantities 1.0,
\* 2.5 and 0.5 are stored as 1, 2 and 0.
OrderInputs ==
    ({"x"} \X {"buy", "SELL"} \X {124, 125} \X {10, 25} \X {<<>>})
    \cup {<<"x", "buy", 125, 10, <<1>>>>, <<"x", "SELL", 125, 10, <<1>>>>,
          <<"X", "Sell", 125, 5, <<>>>>,
          <<"y", "buy", 125, 10, <<>>>>,
          <<"x", "hold", 125, 10, <<>>>>}

\* The orders of the direct-execution specification.
OrderInputsFew ==
    {<<"x", "buy", 125, 25, <<>>>>, <<"x", "SELL", 124, 10, <<>>>>,
     <<"x", "buy", 125, 10, <<1>>>>, <<"X", "Sell", 125, 5, <<>>>>}

\* The orders of the deep-book specification.
OrderInputsDeep ==
    {<<"x", "SELL", 124, 10, <<>>>>, <<"x", "SELL", 125, 10, <<>>>>,
     <<"x", "SELL", 125, 10, <<1>>>>, <<"x", "buy", 125, 25, <<>>>>}

\* Orders for a book whose best offers share one id and price.
OrderInputsCross ==
    {<<"x", "SELL", 124, 10, <<1>>>>, <<"x", "SELL", 125, 10, <<>>>>,
     <<"x", "buy", 124, 25, <<>>>>}

\* Arguments of a direct Order.execute call.
ExecInputs == {-1, 0, 1, 3}

\* ----------------------------------------------------------------- state
\* The entries of book bk that hold the order object o.
Copies(bk, o) ==
    Cardinality({i \in 1..Len(bk.bids) : bk.bids[i][3] = o})
    + Cardinality({i \in 1..Len(bk.offers) : bk.offers[i][3] = o})

\* The call the last step made.
NoCall == [op |-> "none", book |-> 0, order |-> 0, err |-> "none",
           steps |-> <<>>, arg |-> 0, ret |-> 0]

Init ==
    /\ orders = <<>>
    /\ symbol_seq = <<>>
    /\ books = <<OrderBookInit("X")>>
    /\ last = NoCall

\* Order(symbol, side, price, quantity, order_id)
NewOrder(symbol, side, price, quantity, order_id) ==
    /\ orders' = Append(orders, OrderInit(symbol, side, price, quantity, order_id))
    /\ symbol_seq' = NextSeq(Upper(symbol), order_id)
    /\ last' = [NoCall EXCEPT !.op = "Order", !.order = Len(orders) + 1]
    /\ UNCHANGED books

\* order.execute(exec_quantity)
Execute(o, exec_quantity) ==
    /\ LET e == execute(orders[o], exec_quantity)
       IN /\ orders' = [orders EXCEPT ![o] = e.order]
          /\ last' = [NoCall EXCEPT !.op = "execute", !.order = o,
                                    !.arg = exec_quantity, !.ret = e.ret,
                                    !.err = IF e.err THEN "ValueError" ELSE "none"]
    /\ UNCHANGED <<symbol_seq, books>>

\* tuple.__lt__ of two heap entries that do compare: by key, then order_id.
EntryLess(a, b) == a[1] < b[1] \/ (a[1] = b[1] /\ a[2] < b[2])

\* sorted(h) raises TypeError when h holds two entries with the same key and
\* order_id for different Order objects: a comparison sort has to compare them.
Incomparable(h) ==
    \E i, j \in 1..Len(h) :
        /\ h[i][1] = h[j][1] /\ h[i][2] = h[j][2] /\ h[i][3] # h[j][3]

\* sorted(h, reverse=reverse) of a heap whose entries all compare: ascending
\* by (key, order_id), descending when reverse; equal entries (one Order
\* object resting twice) keep their order.
RECURSIVE sorted(_, _)
sorted(h, reverse) ==
    IF h = <<>> THEN <<>>
    ELSE LET firsts == {i \in 1..Len(h) : \A j \in 1..Len(h) :
                           IF reverse THEN ~EntryLess(h[i], h[j])
                                      ELSE ~EntryLess(h[j], h[i])}
             i == CHOOSE k \in firsts : \A m \in firsts : k <= m
         IN <<h[i]>> \o sorted(SubSeq(h, 1, i - 1) \o SubSeq(h, i + 1, Len(h)),
                               reverse)

\* The Order objects of a sequence of heap entries, in order.
OrdersOf(h) == [i \in 1..Len(h) |-> h[i][3]]

\* OrderBook.display_book: the orders printed under BUY ORDERS and under
\* SELL ORDERS, in the order printed, and the exception raised (if any).
display_book(bk) ==
    IF Incomparable(bk.bids)
    THEN [err |-> "TypeError", bids |-> <<>>, offers |-> <<>>]
    ELSE LET listed == OrdersOf(sorted(bk.bids, TRUE))
         IN IF Incomparable(bk.offers)
            THEN [err |-> "TypeError", bids |-> listed, offers |-> <<>>]
            ELSE [err |-> "none", bids |-> listed,
                  offers |-> OrdersOf(sorted(bk.offers, FALSE))]

\* book.display_book()
Display(b) ==
    /\ LET d == display_book(books[b])
       IN last' = [NoCall EXCEPT !.op = "display_book", !.book = b,
                                 !.err = d.err,
                                 !.ret = [bids |-> d.bids, offers |-> d.offers]]
    /\ UNCHANGED <<orders, symbol_seq, books>>

\* book.add_order(order)
AddOrder(b, o) ==
    LET r == add_order(books[b], o)
    IN /\ orders' = r.ord
       /\ books' = [books EXCEPT ![b] = r.book]
       /\ last' = [NoCall EXCEPT !.op = "add_order", !.book = b, !.order = o,
                                 !.err = r.err, !.steps = r.steps]
       /\ UNCHANGED symbol_seq

\* --------------------------------------------------------- specifications
Construct ==
    /\ Len(orders) < MaxOrders
    /\ \E a \in OrderInputs : NewOrder(a[1], a[2], a[3], a[4], a[5])

Submit ==
    \E b \in DOMAIN books, o \in DOMAIN orders :
        /\ Copies(books[b], o) < MaxCopies
        /\ AddOrder(b, o)

\* Orders constructed and submitted to one book.
Next == Construct \/ Submit

Spec == Init /\ [][Next]_vars

ConstructFew ==
    /\ Len(orders) < MaxOrders
    /\ \E a \in OrderInputsFew : NewOrder(a[1], a[2], a[3], a[4], a[5])

Fill ==
    \E o \in DOMAIN orders, q \in ExecInputs : Execute(o, q)

\* Orders constructed, submitted to one book and executed by their owner.
NextOrder == ConstructFew \/ Submit \/ Fill

SpecOrder == Init /\ [][NextOrder]_vars

ConstructDeep ==
    /\ Len(orders) < MaxOrdersDeep
    /\ \E a \in OrderInputsDeep : NewOrder(a[1], a[2], a[3], a[4], a[5])

\* Sell orders, some with the same caller-supplied id, and a buyer, each
\* submitted while it is not resting: a book deep enough for heappop to
\* compare two entries below the root.
SubmitDeep ==
    \E b \in DOMAIN books, o \in DOMAIN orders :
        /\ Copies(books[b], o) = 0
        /\ AddOrder(b, o)

NextDeep == ConstructDeep \/ SubmitDeep

SpecDeep == Init /\ [][NextDeep]_vars

Show ==
    \E b \in DOMAIN books : Display(b)

\* Orders constructed and submitted to one book, and the book displayed.
NextDisplay == Construct \/ Submit \/ Show

SpecDisplay == Init /\ [][NextDisplay]_vars

ConstructCross ==
    /\ Len(orders) < MaxOrdersDeep
    /\ \E a \in OrderInputsCross : NewOrder(a[1], a[2], a[3], a[4], a[5])

\* Sell orders with one caller-supplied id at the buyer's price, a sell order
\* above it and the buyer, each submitted while it is not resting: a heappop
\* that fails leaves the higher offer at the root of the offers.
NextCross == ConstructCross \/ SubmitDeep

SpecCross == Init /\ [][NextCross]_vars

\* ------------------------------------------------------- claims: helpers
\* The calls to add_order and their matching steps.
IsAddOrder == last.op = "add_order"

Steps == 1..Len(last.steps)

\* The steps of the last call that recorded a trade.
Traded(i) == last.steps[i].trade_qty > 0

\* The orders resting opposite the incoming order when step i began.
RestingAt(i) == {last.steps[i].heap[j][3] : j \in 1..Len(last.steps[i].heap)}

\* Order q has a better price than order r for an incoming order of `side`.
BetterPrice(side, q, r) ==
    IF side = "BUY" THEN orders[q].price < orders[r].price
                    ELSE orders[q].price > orders[r].price

\* The entries of both heaps of book bk.
Entries(bk) ==
    {bk.bids[i] : i \in 1..Len(bk.bids)} \cup {bk.offers[i] : i \in 1..Len(bk.offers)}

\* --------------------------------------------------------------- claims
\* C1: every trade matches the incoming order against the best-priced
\* resting order of the opposite side, and among the resting orders at that
\* price against the one with the lowest order_id: no order is traded while
\* a better-priced one, or an equal-priced one with a lower order_id, rests
\* on the same side.
C1_PriceTimePriority ==
    IsAddOrder =>
        \A i \in Steps :
            Traded(i) =>
                \A q \in RestingAt(i) :
                    LET r == last.steps[i].resting
                        side == orders[last.order].side
                    IN /\ ~BetterPrice(side, q, r)
                       /\ orders[q].price = orders[r].price
                            => orders[q].order_id >= orders[r].order_id

\* C2: of two orders resting on the same side at the same price, the one
\* submitted to the book earlier is matched before the one submitted later.
C2_PriorityBySubmission ==
    IsAddOrder =>
        \A i \in Steps :
            Traded(i) =>
                \A j \in 1..Len(last.steps[i].heap) :
                    LET e == last.steps[i].heap[j]
                        top == last.steps[i].heap[1]
                    IN (e[3] # top[3] /\ orders[e[3]].price = orders[top[3]].price)
                         => top[4] <= e[4]

\* C3: every trade's price is the price of the resting order it was matched
\* against, whichever side the incoming order is on.
C3_TradeAtRestingPrice ==
    \A b \in DOMAIN books :
        \A i \in 1..Len(books[b].trades) :
            LET t == books[b].trades[i]
            IN t.price = orders[t.resting].price

\* C3 witness: a book holds a trade made by an incoming BUY and one made by
\* an incoming SELL, each between orders of different prices.
C3_Witness ==
    \E b \in DOMAIN books :
        \A side \in {"BUY", "SELL"} :
            \E i \in 1..Len(books[b].trades) :
                LET t == books[b].trades[i]
                IN /\ t.active = side
                   /\ orders[t.incoming].price # orders[t.resting].price

\* Trade t names order o: it is a trade of o's symbol and carries o's
\* order_id as buy_order_id if o is a BUY order, as sell_order_id if o is a
\* SELL order.
Names(t, o) ==
    /\ t.symbol = orders[o].symbol
    /\ \/ orders[o].side = "BUY" /\ t.buy_order_id = orders[o].order_id
       \/ orders[o].side = "SELL" /\ t.sell_order_id = orders[o].order_id

\* The quantity of trade t if it names order o.
QtyOf(o, t) == IF Names(t, o) THEN t.quantity ELSE 0

\* Order object o was the incoming or the resting order of some trade.
TookPart(o) ==
    \E b \in DOMAIN books : \E i \in 1..Len(books[b].trades) :
        books[b].trades[i].incoming = o \/ books[b].trades[i].resting = o

\* All the trades of all the books, one after the other.
RECURSIVE TradesFrom(_)
TradesFrom(b) ==
    IF b > Len(books) THEN <<>> ELSE books[b].trades \o TradesFrom(b + 1)

\* The quantity of the trades of ts that name order o.
RECURSIVE SumOf(_, _)
SumOf(o, ts) ==
    IF ts = <<>> THEN 0 ELSE QtyOf(o, ts[1]) + SumOf(o, Tail(ts))

TradedQty(o) == SumOf(o, TradesFrom(1))

\* C4: each trade's quantity is at most the smaller of the incoming and the
\* resting order's remaining quantity when they were matched, and the trades
\* that name an order (as buy_order_id or sell_order_id) never add up to more
\* than its original_quantity.
C4_QuantityConservation ==
    /\ IsAddOrder =>
         \A i \in Steps :
             Traded(i) =>
                 last.steps[i].trade_qty
                     <= Min(last.steps[i].inQty, last.steps[i].restQty)
    /\ \A o \in DOMAIN orders : TradedQty(o) <= orders[o].original_quantity

\* The signed quantity of trade t: plus for an incoming BUY, minus for an
\* incoming SELL.
SignedQty(t) == IF t.active = "BUY" THEN t.quantity ELSE -t.quantity

RECURSIVE SumSigned(_)
SumSigned(ts) ==
    IF ts = <<>> THEN 0 ELSE SignedQty(ts[1]) + SumSigned(Tail(ts))

\* C5: positions[symbol] is the sum over the book's trades of +quantity for
\* an incoming BUY and -quantity for an incoming SELL; the tally has an
\* entry for no other symbol, and none before the first trade.
C5_PositionIsAggressorSum ==
    \A b \in DOMAIN books :
        /\ Get(books[b].positions, books[b].symbol, 0)
             = SumSigned(books[b].trades)
        /\ DOMAIN books[b].positions \subseteq {books[b].symbol}
        /\ books[b].trades = <<>> => DOMAIN books[b].positions = {}

\* C5 witness: a book whose trades came from an incoming BUY and from an
\* incoming SELL, and whose tally has its entry.
C5_Witness ==
    \E b \in DOMAIN books :
        /\ \E i \in 1..Len(books[b].trades) : books[b].trades[i].active = "BUY"
        /\ \E i \in 1..Len(books[b].trades) : books[b].trades[i].active = "SELL"
        /\ books[b].symbol \in DOMAIN books[b].positions

\* The call the step made was rejected.
Rejected == last.op = "add_order" /\ last.err \in {"SymbolMismatch", "UnknownSide"}

\* C6: an add_order rejected for its symbol or its side leaves trades,
\* positions, bids, offers and every order's quantity as they were.
C6_RejectionChangesNothing ==
    [][Rejected' => (books' = books /\ orders' = orders)]_vars

\* C6 witness: an order of another symbol was rejected by a book that holds
\* a resting order it would have traded with.
C6_Witness ==
    /\ last.op = "add_order"
    /\ last.err = "SymbolMismatch"
    /\ orders[last.order].side = "BUY"
    /\ \E i \in 1..Len(books[last.book].offers) :
           orders[books[last.book].offers[i][3]].price <= orders[last.order].price

\* C7: a call to add_order that ends in an error has changed nothing: no
\* trade recorded, no order's quantity changed, bids and offers as before.
C7_AllOrNothing ==
    [][(last'.op = "add_order" /\ last'.err # "none")
          => (books' = books /\ orders' = orders)]_vars

\* C8: after every completed add_order every order held in bids or offers
\* has the book's symbol and a remaining quantity greater than 0.
C8_RestingOrdersLive ==
    (IsAddOrder /\ last.err = "none") =>
        \A b \in DOMAIN books :
            \A e \in Entries(books[b]) :
                /\ orders[e[3]].symbol = books[b].symbol
                /\ orders[e[3]].quantity > 0

\* C9: every order has 0 <= quantity <= original_quantity, no step raises
\* an order's quantity or changes its original_quantity, and is_filled is
\* true exactly of the orders whose quantity is 0.
C9_NoOverFill ==
    [][/\ \A o \in DOMAIN orders' :
            /\ 0 <= orders'[o].quantity
            /\ orders'[o].quantity <= orders'[o].original_quantity
            /\ is_filled(orders'[o]) <=> orders'[o].quantity = 0
       /\ \A o \in DOMAIN orders :
            /\ orders'[o].quantity <= orders[o].quantity
            /\ orders'[o].original_quantity = orders[o].original_quantity]_vars

\* C9 witness: execute was asked for more than the order had left and gave
\* what was left, on an order add_order had partly filled before.
C9_Witness ==
    /\ last.op = "execute"
    /\ last.err = "none"
    /\ last.ret < last.arg
    /\ last.ret > 0
    /\ TookPart(last.order)
    /\ orders[last.order].quantity = 0

\* C10: no two orders of one symbol carry the same order_id.
C10_UniqueIds ==
    \A o1, o2 \in DOMAIN orders :
        (o1 # o2 /\ orders[o1].symbol = orders[o2].symbol)
            => orders[o1].order_id # orders[o2].order_id

\* The entries of heap h that hold the order object o.
EntriesOf(h, o) == {i \in 1..Len(h) : h[i][3] = o}

\* The call the last step made returned (raised nothing).
Returned == IsAddOrder /\ last.err = "none"

\* C11: after a successful add_order the incoming order rests on its own
\* side, keyed by (price, order_id), if and only if its remaining quantity is
\* greater than 0, and never on the other side; an incoming order with
\* nothing left is in neither bids nor offers.
C11_RestsIffRemaining ==
    Returned =>
        LET o == last.order
            bk == books[last.book]
            own == IF orders[o].side = "BUY" THEN bk.bids ELSE bk.offers
            other == IF orders[o].side = "BUY" THEN bk.offers ELSE bk.bids
            sign == IF orders[o].side = "BUY" THEN -1 ELSE 1
        IN /\ (orders[o].quantity > 0) <=> (EntriesOf(own, o) # {})
           /\ EntriesOf(other, o) = {}
           /\ \A i \in EntriesOf(own, o) :
                  /\ own[i][1] = sign * orders[o].price
                  /\ own[i][2] = orders[o].order_id

\* C12: each order occupies at most one resting slot: at most one book, one
\* side of it and one entry of that side's heap.
C12_ExclusiveOwnership ==
    \A o \in DOMAIN orders :
        /\ \A b \in DOMAIN books : Copies(books[b], o) <= 1
        /\ \A b1, b2 \in DOMAIN books :
               (Copies(books[b1], o) > 0 /\ Copies(books[b2], o) > 0) => b1 = b2

\* C13: Order.execute with a quantity of 0 or less raises an error and leaves
\* the quantity and the original quantity of the order (and of every other
\* order) unchanged, whatever the order's state, filled orders included.
C13_NonPositiveExecuteRejected ==
    [][(last'.op = "execute" /\ last'.arg <= 0)
          => (last'.err = "ValueError" /\ orders' = orders)]_vars
C13_Witness ==
    /\ last.op = "execute" /\ last.arg < 0 /\ last.err = "ValueError"
    /\ orders[last.order].quantity = 0
    /\ orders[last.order].original_quantity > 0
    /\ TookPart(last.order)

\* The prices and ids of the orders listed, in the order listed.
ListedBids == last.ret.bids
ListedOffers == last.ret.offers

\* C14: display_book lists the bids by price descending then order_id
\* ascending and the offers by price ascending then order_id ascending, so
\* that the first bid and the first offer listed are the ones at the head of
\* the matcher's heaps.
C14_ListedInPriorityOrder ==
    (last.op = "display_book" /\ last.err = "none") =>
        /\ \A i, j \in 1..Len(ListedBids) : i < j =>
               LET p == orders[ListedBids[i]]
                   q == orders[ListedBids[j]]
               IN \/ p.price > q.price
                  \/ (p.price = q.price /\ p.order_id <= q.order_id)
        /\ \A i, j \in 1..Len(ListedOffers) : i < j =>
               LET p == orders[ListedOffers[i]]
                   q == orders[ListedOffers[j]]
               IN \/ p.price < q.price
                  \/ (p.price = q.price /\ p.order_id <= q.order_id)
        /\ ListedBids # <<>> => ListedBids[1] = HeapTop(books[last.book].bids)[3]
        /\ ListedOffers # <<>> => ListedOffers[1] = HeapTop(books[last.book].offers)[3]

\* The trade step i of the last call recorded, when every step of the call
\* recorded one.
TradeOf(i) ==
    LET ts == books[last.book].trades
    IN ts[Len(ts) - Len(last.steps) + i]

\* C15: in every match step of add_order (every iteration that found a
\* crossable resting order) the quantity asked of the incoming order is the
\* smaller of the two orders' remaining quantities before the step and is
\* greater than 0, the incoming order's execute returns it, both orders
\* decrease by it and it is the quantity of the trade recorded.
C15_StepTradesMin ==
    IsAddOrder =>
        /\ \A i \in Steps :
               LET s == last.steps[i]
               IN /\ s.asked = Min(s.inQty, s.restQty)
                  /\ s.asked > 0
                  /\ s.trade_qty = s.asked
                  /\ s.inAfter = s.inQty - s.asked
                  /\ s.restAfter = s.restQty - s.asked
        /\ \A i \in Steps :
               /\ TradeOf(i).quantity = last.steps[i].asked
               /\ TradeOf(i).incoming = last.order
               /\ TradeOf(i).resting = last.steps[i].resting

\* The entries of heap h.
EntrySet(h) == {h[i] : i \in 1..Len(h)}

\* Order o would trade with the resting order r of the opposite side.
Crossable(o, r) ==
    IF orders[o].side = "BUY" THEN orders[o].price >= orders[r].price
                              ELSE orders[o].price <= orders[r].price

\* The heap opposite the order of the last call, in the book it was sent to.
OppositeHeap ==
    IF orders[last.order].side = "BUY" THEN books[last.book].offers
                                       ELSE books[last.book].bids

\* The matching loop of the last call ran: the call was an add_order that
\* passed the symbol check and the dispatch on the side.
Matched == IsAddOrder /\ last.err \notin {"SymbolMismatch", "UnknownSide"}

\* C16: a step that leaves its resting order with quantity is the last one
\* and leaves the incoming order with none; every earlier step filled its
\* resting order; and matching never stops with quantity left on the
\* incoming order while an order resting on the opposite side with quantity
\* left is crossable.
C16_StopsOnlyWhenDone ==
    Matched =>
        /\ \A i \in Steps : Traded(i) =>
               /\ last.steps[i].restAfter > 0
                     => (last.steps[i].inAfter = 0 /\ i = Len(last.steps))
               /\ i < Len(last.steps) => last.steps[i].restAfter = 0
        /\ orders[last.order].quantity > 0
              => \A e \in EntrySet(OppositeHeap) :
                     orders[e[3]].quantity > 0 => ~Crossable(last.order, e[3])

\* The prices of the orders resting in heap h.
PricesOf(h) == {orders[h[i][3]].price : i \in 1..Len(h)}

\* C20: after every add_order that returned, the highest resting bid price is
\* lower than the lowest resting offer price.
C20_NeverCrossed ==
    Returned =>
        \A b \in DOMAIN books :
            \A pb \in PricesOf(books[b].bids), po \in PricesOf(books[b].offers) :
                pb < po

\* C17: every trade has one BUY order and one SELL order, the incoming order
\* and the resting one, and names the BUY order's id as buy_order_id and the
\* SELL order's id as sell_order_id; bids hold only BUY orders and offers
\* only SELL orders.
C17_TradeSides ==
    \A b \in DOMAIN books :
        /\ \A i \in 1..Len(books[b].trades) :
               LET t == books[b].trades[i]
                   buyer == IF orders[t.incoming].side = "BUY" THEN t.incoming
                                                               ELSE t.resting
                   seller == IF orders[t.incoming].side = "BUY" THEN t.resting
                                                                ELSE t.incoming
               IN /\ t.incoming # t.resting
                  /\ orders[buyer].side = "BUY"
                  /\ orders[seller].side = "SELL"
                  /\ t.buy_order_id = orders[buyer].order_id
                  /\ t.sell_order_id = orders[seller].order_id
                  /\ t.active = orders[t.incoming].side
        /\ \A i \in 1..Len(books[b].bids) : orders[books[b].bids[i][3]].side = "BUY"
        /\ \A i \in 1..Len(books[b].offers) : orders[books[b].offers[i][3]].side = "SELL"
C17_Witness ==
    \E b \in DOMAIN books :
        /\ \A side \in {"BUY", "SELL"} :
               \E i \in 1..Len(books[b].trades) :
                   /\ books[b].trades[i].active = side
                   /\ books[b].trades[i].buy_order_id # books[b].trades[i].sell_order_id
        /\ books[b].bids # <<>> \/ books[b].offers # <<>>

\* The step is an add_order call of a BUY or SELL order of the book's symbol
\* that crosses no order resting on the opposite side before the call.
NonCrossingCall ==
    /\ last'.op = "add_order"
    /\ LET o == last'.order
           bk == books[last'.book]
           opposite == IF orders[o].side = "BUY" THEN bk.offers ELSE bk.bids
       IN /\ orders[o].symbol = bk.symbol
          /\ orders[o].side \in {"BUY", "SELL"}
          /\ \A e \in EntrySet(opposite) : ~Crossable(o, e[3])

\* What the call of the step leaves alone: the trades, the positions, the
\* opposite side, every order and the entries of the own side; `added` tells
\* whether the own side gains the entry of the incoming order.
FrameKept(added) ==
    LET o == last'.order
        b == last'.book
        buy == orders[o].side = "BUY"
        own == IF buy THEN books[b].bids ELSE books[b].offers
        ownAfter == IF buy THEN books'[b].bids ELSE books'[b].offers
        opposite == IF buy THEN books[b].offers ELSE books[b].bids
        oppositeAfter == IF buy THEN books'[b].offers ELSE books'[b].bids
        entry == <<(IF buy THEN -1 ELSE 1) * orders[o].price,
                   orders[o].order_id, o, books[b].rested>>
    IN /\ books'[b].trades = books[b].trades
       /\ books'[b].positions = books[b].positions
       /\ oppositeAfter = opposite
       /\ orders' = orders
       /\ \A c \in DOMAIN books : c # b => books'[c] = books[c]
       /\ IF added
          THEN /\ EntrySet(ownAfter) = EntrySet(own) \cup {entry}
               /\ Len(ownAfter) = Len(own) + 1
          ELSE ownAfter = own

\* C18: an add_order that crosses nothing records no trade, leaves the
\* positions, the opposite side, the orders and the own side's entries
\* unchanged, and adds the incoming order with its full quantity to its own
\* side.
C18_NonCrossingFrame ==
    [][NonCrossingCall => FrameKept(TRUE)]_vars

\* C18, amended: as above, but the incoming order is added to its own side
\* only when its quantity is greater than 0; an incoming order of quantity 0
\* is not added and the book is left as it was.
C18_NonCrossingFrameAmended ==
    [][NonCrossingCall => FrameKept(orders[last'.order].quantity > 0)]_vars
C18_Witness ==
    /\ IsAddOrder /\ last.steps = <<>>
    /\ orders[last.order].quantity = orders[last.order].original_quantity
    /\ OppositeHeap # <<>>
    /\ \A e \in EntrySet(OppositeHeap) : ~Crossable(last.order, e[3])
    /\ Copies(books[last.book], last.order) = 1
    /\ Len(books[last.book].bids) + Len(books[last.book].offers) = 3

\* Every step of the last call but the final one filled the resting order at
\* the head of the opposite heap and removed that entry.
StepsShrink ==
    \A i \in Steps : i < Len(last.steps) =>
        /\ Traded(i) /\ last.steps[i].restAfter = 0
        /\ Len(last.steps[i + 1].heap) = Len(last.steps[i].heap) - 1
        /\ EntrySet(last.steps[i + 1].heap)
             = EntrySet(last.steps[i].heap) \ {last.steps[i].heap[1]}

\* C19: the matching loop of an add_order call is bounded by the opposite
\* side: every iteration but the last removes one filled resting order, the
\* call records at most as many trades as orders rested on the opposite side
\* when it began, every trade but possibly the last removes one of them, and
\* a call that returns with quantity left has rested the incoming order.
C19_BoundedMatching ==
    [][last'.op = "add_order" =>
          LET o == last'.order
              b == last'.book
              buy == orders[o].side = "BUY"
              opposite == IF buy THEN books[b].offers ELSE books[b].bids
              oppositeAfter == IF buy THEN books'[b].offers ELSE books'[b].bids
              ownAfter == IF buy THEN books'[b].bids ELSE books'[b].offers
              n == Len(books'[b].trades) - Len(books[b].trades)
              removed == Len(opposite) - Len(oppositeAfter)
          IN /\ 0 <= n /\ n <= Len(opposite)
             /\ n - 1 <= removed /\ removed <= n
             /\ Len(last'.steps) <= Len(opposite)
             /\ StepsShrink'
             /\ (last'.err = "none" /\ orders'[o].quantity > 0)
                   => EntriesOf(ownAfter, o) # {}]_vars
C19_Witness ==
    /\ Returned /\ Len(last.steps) = 2 /\ \A i \in Steps : Traded(i)
    /\ Len(last.steps[1].heap) = 2
    /\ OppositeHeap = <<>>

====
